---- MODULE Spec2Model ----
(***************************************************************************)
(* Model of generate-invoice.py: the two flat-file stores (client          *)
(* profiles, invoice counter), the invoice JSON import/export file, and    *)
(* one action per invocation of main() or direct call of a counter         *)
(* function.  Invocations are sequential (section 5 of the spec: no        *)
(* concurrency), so every invocation is one atomic step.                   *)
(*                                                                         *)
(* Python values: None is the string None below; a str is a TLA+ string;   *)
(* argparse's "append" list (--item) is a sequence, <<>> standing for the  *)
(* None argparse leaves when the flag was never given; a command-line      *)
(* item string is the sequence of its comma-separated, stripped parts;     *)
(* a float is an integer number of hundredths.                             *)
(***************************************************************************)
EXTENDS Integers, Sequences, FiniteSets, TLC

VARIABLES counterFile, clientsFile, jsonFile, call, allocLog, peekLog,
          counter0, exported

vars == <<counterFile, clientsFile, jsonFile, call, allocLog, peekLog,
          counter0, exported>>

\* ------------------------------------------------------------------ bounds
\* The largest last_number a direct call may write, the longest run of
\* peeks, and the largest last_number an invocation of main may write.
MaxCounter == 10
MaxPeeks == 3
MaxInvoices == 2

\* ---------------------------------------------------------- Python values
None == "<None>"

\* Python truthiness of an optional string: None and "" are falsy.
Truthy(x) == x # None /\ x # ""

\* ------------------------------------------------------------------ files
AbsentFile == [st |-> "absent"]
CorruptFile == [st |-> "corrupt"]
CounterData(n) == [st |-> "ok", last_number |-> n]

\* DEFAULTS["invoice_prefix"]
invoice_prefix == "INV"

\* The format spec ":03d": zero-pad to at least three digits.
Format03d(n) ==
    IF n < 10 THEN "00" \o ToString(n)
    ELSE IF n < 100 THEN "0" \o ToString(n)
    ELSE ToString(n)

InvoiceId(n) == invoice_prefix \o "-" \o Format03d(n)

\* get_next_invoice_number: the file it leaves, what it returns or raises.
get_next_invoice_number_off(cf) ==
    IF cf.st = "corrupt"
    THEN [file |-> cf, ret |-> None, exc |-> "JSONDecodeError"]
    ELSE LET last == IF cf.st = "ok" THEN cf.last_number ELSE 0
         IN  [file |-> CounterData(last + 1), ret |-> InvoiceId(last),
              exc |-> None]

get_next_invoice_number_reset(cf) ==
    LET last == IF cf.st = "ok" THEN cf.last_number ELSE 0
    IN  [file |-> CounterData(last + 1), ret |-> InvoiceId(last + 1),
         exc |-> None]

get_next_invoice_number(cf) ==
    IF cf.st = "corrupt"
    THEN [file |-> cf, ret |-> None, exc |-> "JSONDecodeError"]
    ELSE LET last == IF cf.st = "ok" THEN cf.last_number ELSE 0
         IN  [file |-> CounterData(last + 1), ret |-> InvoiceId(last + 1),
              exc |-> None]

peek_next_invoice_number_write(cf) ==
    IF cf.st = "ok"
    THEN [file |-> cf, ret |-> InvoiceId(cf.last_number + 1), exc |-> None]
    ELSE IF cf.st = "corrupt"
    THEN [file |-> cf, ret |-> None, exc |-> "JSONDecodeError"]
    ELSE [file |-> CounterData(0), ret |-> InvoiceId(1), exc |-> None]

\* peek_next_invoice_number: opens the file for reading only.
peek_next_invoice_number(cf) ==
    IF cf.st = "ok"
    THEN [file |-> cf, ret |-> InvoiceId(cf.last_number + 1), exc |-> None]
    ELSE IF cf.st = "corrupt"
    THEN [file |-> cf, ret |-> None, exc |-> "JSONDecodeError"]
    ELSE [file |-> cf, ret |-> InvoiceId(1), exc |-> None]

\* ---------------------------------------------------------- client store
\* clients.json holds a JSON object; a Python dict keeps insertion order, so
\* the mapping is a sequence of entries [key, name, company], keys distinct.
ClientsData(d) == [st |-> "ok", data |-> d]

HasKey(d, k) == \E i \in 1..Len(d) : d[i].key = k

Lookup(d, k) == d[CHOOSE i \in 1..Len(d) : d[i].key = k]

\* clients[k] = {"name": name, "company": company}: an existing key keeps
\* its position, a new key goes last.
DictSet(d, k, name, company) ==
    LET e == [key |-> k, name |-> name, company |-> company]
    IN  IF HasKey(d, k)
        THEN [i \in 1..Len(d) |-> IF d[i].key = k THEN e ELSE d[i]]
        ELSE Append(d, e)

\* del clients[k]
DictDel(d, k) == SelectSeq(d, LAMBDA e : e.key # k)

load_clients(f) == IF f.st = "ok" THEN f.data ELSE <<>>

save_clients(clients) == ClientsData(clients)

\* ------------------------------------------------------------ the invoice
DEFAULTS == [from_name |-> "Adam Luck",
             from_email |-> "adamluckydo@gmail.com",
             payment_method |-> "PayPal - adamluckydo@gmail.com"]

\* datetime.now().strftime("%B %d, %Y"): the clock is the environment's.
Today == "November 01, 2026"

NoInvoice == [nil |-> TRUE]

create_empty_invoice ==
    [invoice_number |-> None,
     title |-> "",
     date |-> Today,
     from |-> [name |-> DEFAULTS.from_name, email |-> DEFAULTS.from_email],
     to |-> [name |-> "", company |-> ""],
     items |-> <<>>,
     payment_method |-> DEFAULTS.payment_method,
     notes |-> ""]

\* ------------------------------------------------------- numeric parsing
\* int(text) and float(text) over the texts the model's inputs use; any
\* other text raises ValueError.
IntTable == [t \in {"1", "2", "3", "10"} |->
                CASE t = "1" -> 1 [] t = "2" -> 2 [] t = "3" -> 3
                  [] t = "10" -> 10]

FloatTable == [t \in {"0", "20", "150", "99.5", "1500"} |->
                CASE t = "0" -> 0 [] t = "20" -> 2000 [] t = "150" -> 15000
                  [] t = "99.5" -> 9950 [] t = "1500" -> 150000]

IsInt(t) == t \in DOMAIN IntTable
IsFloat(t) == t \in DOMAIN FloatTable

\* text.replace("$", "") and text.replace(",", "")
ReplaceDollar(t) == CASE t = "$20" -> "20" [] t = "$1,500" -> "1,500"
                      [] OTHER -> t
ReplaceComma(t) == CASE t = "1,500" -> "1500" [] OTHER -> t

\* parse_item_string on the stripped parts of item_str.split(","): a
\* result [exc, item].
NoItem == [nil |-> TRUE]

Part(parts, i) == IF i <= Len(parts) THEN parts[i] ELSE ""

parse_item_string(parts) ==
    LET q == Part(parts, 3)
        r == ReplaceDollar(Part(parts, 4))
    IN  IF (q # "" /\ ~IsInt(q)) \/ (Part(parts, 4) # "" /\ ~IsFloat(r))
        THEN [exc |-> "ValueError", item |-> NoItem]
        ELSE [exc |-> None,
              item |-> [service |-> Part(parts, 1),
                        date |-> Part(parts, 2),
                        quantity |-> IF q # "" THEN IntTable[q] ELSE 1,
                        rate |-> IF Part(parts, 4) # "" THEN FloatTable[r]
                                 ELSE 0]]

\* ------------------------------------------------------ interactive input
\* prompt(msg, default) given the line typed (already stripped).
prompt(typed, default) ==
    IF Truthy(default) THEN (IF typed # "" THEN typed ELSE default)
    ELSE typed

NoClient == [nil |-> TRUE]

\* prompt_client_selection: the chosen profile, or NoClient for None.  With
\* no saved client nothing is asked.
prompt_client_selection(clients, choice) ==
    IF clients = <<>> THEN NoClient
    ELSE IF IsInt(choice)
    THEN (IF IntTable[choice] - 1 < Len(clients)
          THEN clients[IntTable[choice]] ELSE NoClient)
    ELSE IF HasKey(clients, choice) THEN Lookup(clients, choice)
    ELSE NoClient

\* One pass of the loop of prompt_items for a non-blank service: a bad
\* number in either text puts both back to their defaults.
prompt_item(e) ==
    LET quantity == prompt(e.quantity, "1")
        rate == ReplaceComma(ReplaceDollar(prompt(e.rate, "0")))
        good == IsInt(quantity) /\ IsFloat(rate)
    IN  [service |-> e.service,
         date |-> e.date,
         quantity |-> IF good THEN IntTable[quantity] ELSE 1,
         rate |-> IF good THEN FloatTable[rate] ELSE 0]

\* prompt_items: the loop leaves only with at least one item entered.
prompt_items(entries) == [i \in 1..Len(entries) |-> prompt_item(entries[i])]

\* interactive_input after its call of peek_next_invoice_number: typed is
\* the record of the lines typed at the prompts.
interactive_input(clients, typed) ==
    LET selected == prompt_client_selection(clients, typed.choice)
    IN  [invoice_number |-> None,
         title |-> typed.title,
         date |-> prompt(typed.date, Today),
         from |-> [name |-> prompt(typed.from_name, DEFAULTS.from_name),
                   email |-> prompt(typed.from_email, DEFAULTS.from_email)],
         to |-> IF selected # NoClient
                THEN [name |-> selected.name, company |-> selected.company]
                ELSE [name |-> typed.to_name, company |-> typed.to_company],
         items |-> prompt_items(typed.items),
         payment_method |-> prompt(typed.payment, DEFAULTS.payment_method),
         notes |-> typed.notes]

\* ---------------------------------------------------------- PDF generation
RECURSIVE SumTotals(_)
SumTotals(items) ==
    IF items = <<>> THEN 0
    ELSE items[1].quantity * items[1].rate + SumTotals(Tail(items))

\* f"${v:.0f}" if v == int(v) else f"${v:.2f}", v in hundredths.
Money(v) ==
    IF v % 100 = 0 THEN "$" \o ToString(v \div 100)
    ELSE "$" \o ToString(v \div 100) \o "."
             \o (IF v % 100 < 10 THEN "0" ELSE "") \o ToString(v % 100)

\* generate_pdf: the flowables of the document, top to bottom (the logo
\* block and the styling are left out).
generate_pdf(invoice) ==
    [number_line |-> IF Truthy(invoice.invoice_number)
                     THEN invoice.invoice_number ELSE None,
     title |-> invoice.title,
     date |-> invoice.date,
     from |-> <<invoice.from.name, invoice.from.email>>,
     to |-> IF Truthy(invoice.to.company)
            THEN <<invoice.to.name, invoice.to.company>>
            ELSE <<invoice.to.name>>,
     table_data |->
        <<  <<"Services", "Date", "Quantity", "Rate", "Total">> >>
        \o [i \in 1..Len(invoice.items) |->
              <<invoice.items[i].service, invoice.items[i].date,
                ToString(invoice.items[i].quantity),
                Money(invoice.items[i].rate),
                Money(invoice.items[i].quantity * invoice.items[i].rate)>>]
        \o << <<"Total", "", "", "", Money(SumTotals(invoice.items))>> >>,
     payment_method |-> invoice.payment_method,
     notes |-> IF Truthy(invoice.notes) THEN invoice.notes ELSE None]

NoDoc == [nil |-> TRUE]

\* ------------------------------------------------------------------- JSON
\* json.dump and json.load of an invoice: the file holds JSON values, not
\* Python ones (null for None, an array of objects for the items).
JNull == [j |-> "null"]
JString(s) == [j |-> "string", s |-> s]
JNumber(n) == [j |-> "number", n |-> n]

JsonOfStr(x) == IF x = None THEN JNull ELSE JString(x)
StrOfJson(v) == IF v.j = "null" THEN None ELSE v.s

json_dump(invoice) ==
    [invoice_number |-> JsonOfStr(invoice.invoice_number),
     title |-> JsonOfStr(invoice.title),
     date |-> JsonOfStr(invoice.date),
     from |-> [name |-> JsonOfStr(invoice.from.name),
               email |-> JsonOfStr(invoice.from.email)],
     to |-> [name |-> JsonOfStr(invoice.to.name),
             company |-> JsonOfStr(invoice.to.company)],
     items |-> [i \in 1..Len(invoice.items) |->
                  [service |-> JsonOfStr(invoice.items[i].service),
                   date |-> JsonOfStr(invoice.items[i].date),
                   quantity |-> JNumber(invoice.items[i].quantity),
                   rate |-> JNumber(invoice.items[i].rate)]],
     payment_method |-> JsonOfStr(invoice.payment_method),
     notes |-> JsonOfStr(invoice.notes)]

json_load(text) ==
    [invoice_number |-> StrOfJson(text.invoice_number),
     title |-> StrOfJson(text.title),
     date |-> StrOfJson(text.date),
     from |-> [name |-> StrOfJson(text.from.name),
               email |-> StrOfJson(text.from.email)],
     to |-> [name |-> StrOfJson(text.to.name),
             company |-> StrOfJson(text.to.company)],
     items |-> [i \in 1..Len(text.items) |->
                  [service |-> StrOfJson(text.items[i].service),
                   date |-> StrOfJson(text.items[i].date),
                   quantity |-> text.items[i].quantity.n,
                   rate |-> text.items[i].rate.n]],
     payment_method |-> StrOfJson(text.payment_method),
     notes |-> StrOfJson(text.notes)]

JsonData(text) == [st |-> "ok", text |-> text]

\* ------------------------------------------------------------------- main
\* args as argparse leaves them when no flag is given; typed is what is
\* typed at the prompts, read in interactive mode only.
NoTyped == [title |-> "", date |-> "", from_name |-> "", from_email |-> "",
            choice |-> "", to_name |-> "", to_company |-> "",
            items |-> <<>>, payment |-> "", notes |-> ""]

NoArgs == [from_json |-> None, title |-> None, date |-> None, to |-> None,
           to_company |-> None, from_name |-> None, from_email |-> None,
           item |-> <<>>, payment |-> None, notes |-> None,
           save_json |-> None, invoice_number |-> None, no_number |-> FALSE,
           client |-> None, list_clients |-> FALSE, save_client |-> None,
           delete_client |-> None, typed |-> NoTyped]

\* The running state of one invocation: the files, what was printed last,
\* how main left ("run" while it has not), and what it called.
Start(cf, cl, jf) ==
    [exit |-> "run", msg |-> None, counterFile |-> cf, clientsFile |-> cl,
     jsonFile |-> jf, invoice |-> NoInvoice, source |-> None,
     numbering |-> None, doc |-> NoDoc, peek |-> None, alloc |-> None,
     n_alloc |-> 0, n_peek |-> 0, n_render |-> 0, n_save_clients |-> 0,
     n_save_json |-> 0]

\* if args.list_clients: ... return
ListClientsCmd(a, c) ==
    IF c.exit = "run" /\ a.list_clients
    THEN [c EXCEPT !.exit = "return",
                   !.msg = IF load_clients(c.clientsFile) = <<>>
                           THEN "No saved clients." ELSE "Saved clients:"]
    ELSE c

DeleteClientCmd_always_saves(a, c) ==
    IF c.exit = "run" /\ Truthy(a.delete_client)
    THEN LET clients == load_clients(c.clientsFile)
         IN  [c EXCEPT !.clientsFile =
                           save_clients(DictDel(clients, a.delete_client)),
                       !.n_save_clients = @ + 1,
                       !.msg = IF HasKey(clients, a.delete_client)
                               THEN "Deleted client" ELSE "Client not found",
                       !.exit = "return"]
    ELSE c

\* if args.delete_client: ... return
DeleteClientCmd(a, c) ==
    IF c.exit = "run" /\ Truthy(a.delete_client)
    THEN LET clients == load_clients(c.clientsFile)
         IN  IF HasKey(clients, a.delete_client)
             THEN [c EXCEPT !.clientsFile =
                               save_clients(DictDel(clients, a.delete_client)),
                            !.n_save_clients = @ + 1,
                            !.msg = "Deleted client",
                            !.exit = "return"]
             ELSE [c EXCEPT !.msg = "Client not found", !.exit = "return"]
    ELSE c

SaveClientCmd_no_return(a, c) ==
    IF c.exit = "run" /\ Truthy(a.save_client)
    THEN IF ~Truthy(a.to)
         THEN [c EXCEPT !.msg = "Error: --save-client requires --to",
                        !.exit = "return"]
         ELSE LET clients == load_clients(c.clientsFile)
              IN  [c EXCEPT
                      !.clientsFile = save_clients(DictSet(clients,
                          a.save_client, a.to,
                          IF Truthy(a.to_company) THEN a.to_company ELSE "")),
                      !.n_save_clients = @ + 1,
                      !.msg = "Saved client"]
    ELSE c

\* if args.save_client: ...
SaveClientCmd(a, c) ==
    IF c.exit = "run" /\ Truthy(a.save_client)
    THEN IF ~Truthy(a.to)
         THEN [c EXCEPT !.msg = "Error: --save-client requires --to",
                        !.exit = "return"]
         ELSE LET clients == load_clients(c.clientsFile)
                  saved == [c EXCEPT
                      !.clientsFile = save_clients(DictSet(clients,
                          a.save_client, a.to,
                          IF Truthy(a.to_company) THEN a.to_company ELSE "")),
                      !.n_save_clients = @ + 1,
                      !.msg = "Saved client"]
              IN  IF a.item = <<>> THEN [saved EXCEPT !.exit = "return"]
                  ELSE saved
    ELSE c

\* The branch "# CLI mode" up to the client profile.
CliClient(a, c) ==
    IF ~Truthy(a.client) THEN [c EXCEPT !.invoice = create_empty_invoice]
    ELSE LET clients == load_clients(c.clientsFile)
         IN  IF ~HasKey(clients, a.client)
             THEN [c EXCEPT !.msg = "Error: Unknown client", !.exit = "return"]
             ELSE [c EXCEPT !.invoice =
                      [create_empty_invoice EXCEPT
                          !.to = [name |-> Lookup(clients, a.client).name,
                                  company |->
                                      Lookup(clients, a.client).company]]]

\* [parse_item_string(i) for i in args.item]
ParseItems(item) == [i \in 1..Len(item) |-> parse_item_string(item[i])]

CliOverrides_profile_last(a, c, inv) ==
    LET parsed == ParseItems(a.item)
    IN  IF \E i \in 1..Len(parsed) : parsed[i].exc # None
        THEN [c EXCEPT !.exit = "ValueError"]
        ELSE [c EXCEPT !.invoice =
          [title |-> IF Truthy(a.title) THEN a.title ELSE inv.title,
           date |-> IF Truthy(a.date) THEN a.date ELSE inv.date,
           to |-> [name |-> IF Truthy(a.to) /\ ~Truthy(a.client)
                            THEN a.to ELSE inv.to.name,
                   company |-> IF Truthy(a.to_company) /\ ~Truthy(a.client)
                               THEN a.to_company ELSE inv.to.company],
           from |-> [name |-> IF Truthy(a.from_name) THEN a.from_name
                              ELSE inv.from.name,
                     email |-> IF Truthy(a.from_email) THEN a.from_email
                               ELSE inv.from.email],
           items |-> IF a.item # <<>>
                     THEN [i \in 1..Len(parsed) |-> parsed[i].item]
                     ELSE inv.items,
           payment_method |-> IF Truthy(a.payment) THEN a.payment
                              ELSE inv.payment_method,
           notes |-> IF Truthy(a.notes) THEN a.notes ELSE inv.notes,
           invoice_number |-> inv.invoice_number]]

\* The "if args.<field>:" assignments of CLI mode onto the invoice inv.
CliOverrides(a, c, inv) ==
    LET parsed == ParseItems(a.item)
    IN  IF \E i \in 1..Len(parsed) : parsed[i].exc # None
        THEN [c EXCEPT !.exit = "ValueError"]
        ELSE [c EXCEPT !.invoice =
          [title |-> IF Truthy(a.title) THEN a.title ELSE inv.title,
           date |-> IF Truthy(a.date) THEN a.date ELSE inv.date,
           to |-> [name |-> IF Truthy(a.to) THEN a.to ELSE inv.to.name,
                   company |-> IF Truthy(a.to_company) THEN a.to_company
                               ELSE inv.to.company],
           from |-> [name |-> IF Truthy(a.from_name) THEN a.from_name
                              ELSE inv.from.name,
                     email |-> IF Truthy(a.from_email) THEN a.from_email
                               ELSE inv.from.email],
           items |-> IF a.item # <<>>
                     THEN [i \in 1..Len(parsed) |-> parsed[i].item]
                     ELSE inv.items,
           payment_method |-> IF Truthy(a.payment) THEN a.payment
                              ELSE inv.payment_method,
           notes |-> IF Truthy(a.notes) THEN a.notes ELSE inv.notes,
           invoice_number |-> inv.invoice_number]]

\* interactive_input: create_empty_invoice, load_clients, then the peek
\* that the banner prints, then the prompts.
Interactive(a, c) ==
    LET pk == peek_next_invoice_number(c.counterFile)
        peeked == [c EXCEPT !.n_peek = @ + 1, !.peek = pk.ret,
                            !.counterFile = pk.file]
    IN  IF pk.exc # None THEN [peeked EXCEPT !.exit = pk.exc]
        ELSE [peeked EXCEPT !.invoice =
                 interactive_input(load_clients(c.clientsFile), a.typed)]

\* "# Load from JSON or start fresh"
LoadSource(a, c) ==
    IF c.exit # "run" THEN c
    ELSE IF Truthy(a.from_json)
    THEN (IF c.jsonFile.st = "absent"
          THEN [c EXCEPT !.source = "json", !.exit = "FileNotFoundError"]
          ELSE [c EXCEPT !.source = "json",
                         !.invoice = json_load(c.jsonFile.text)])
    ELSE IF Truthy(a.title) \/ a.item # <<>> \/ Truthy(a.client)
    THEN LET c1 == CliClient(a, [c EXCEPT !.source = "cli"])
         IN  IF c1.exit # "run" THEN c1
             ELSE CliOverrides(a, c1, c1.invoice)
    ELSE Interactive(a, [c EXCEPT !.source = "interactive"])

Numbering_always_allocates(a, c) ==
    IF c.exit # "run" THEN c
    ELSE IF a.no_number
    THEN [c EXCEPT !.numbering = "none", !.invoice.invoice_number = None]
    ELSE IF Truthy(a.invoice_number)
    THEN [c EXCEPT !.numbering = "explicit",
                   !.invoice.invoice_number = a.invoice_number]
    ELSE LET r == get_next_invoice_number(c.counterFile)
             called == [c EXCEPT !.numbering = "auto", !.n_alloc = @ + 1,
                                 !.counterFile = r.file, !.alloc = r.ret]
         IN  IF r.exc # None THEN [called EXCEPT !.exit = r.exc]
             ELSE [called EXCEPT !.invoice.invoice_number = r.ret]

Numbering_alloc_first(a, c) ==
    IF c.exit # "run" THEN c
    ELSE LET r == get_next_invoice_number(c.counterFile)
             called == [c EXCEPT !.n_alloc = @ + 1,
                                 !.counterFile = r.file, !.alloc = r.ret]
         IN  IF r.exc # None THEN [called EXCEPT !.exit = r.exc]
             ELSE IF a.no_number
             THEN [called EXCEPT !.numbering = "none",
                                 !.invoice.invoice_number = None]
             ELSE IF Truthy(a.invoice_number)
             THEN [called EXCEPT !.numbering = "explicit",
                                 !.invoice.invoice_number = a.invoice_number]
             ELSE [called EXCEPT !.numbering = "auto",
                                 !.invoice.invoice_number = r.ret]

\* "# Handle invoice numbering"
Numbering(a, c) ==
    IF c.exit # "run" THEN c
    ELSE IF a.no_number
    THEN [c EXCEPT !.numbering = "none", !.invoice.invoice_number = None]
    ELSE IF Truthy(a.invoice_number)
    THEN [c EXCEPT !.numbering = "explicit",
                   !.invoice.invoice_number = a.invoice_number]
    ELSE IF ~Truthy(c.invoice.invoice_number)
    THEN LET r == get_next_invoice_number(c.counterFile)
             called == [c EXCEPT !.numbering = "auto", !.n_alloc = @ + 1,
                                 !.counterFile = r.file, !.alloc = r.ret]
         IN  IF r.exc # None THEN [called EXCEPT !.exit = r.exc]
             ELSE [called EXCEPT !.invoice.invoice_number = r.ret]
    ELSE [c EXCEPT !.numbering = "kept"]

\* "# Generate PDF": nothing between the numbering and generate_pdf looks
\* at the title or the items.
Render(a, c) ==
    IF c.exit # "run" THEN c
    ELSE [c EXCEPT !.n_render = @ + 1, !.doc = generate_pdf(c.invoice),
                   !.msg = "Generated"]

SaveJson_before_numbering(a, c) ==
    IF c.exit = "run" /\ Truthy(a.save_json)
    THEN [c EXCEPT !.n_save_json = @ + 1,
                   !.jsonFile = JsonData(json_dump(
                       [c.invoice EXCEPT !.invoice_number = None]))]
    ELSE c

\* "# Optionally save JSON"
SaveJson(a, c) ==
    IF c.exit = "run" /\ Truthy(a.save_json)
    THEN [c EXCEPT !.n_save_json = @ + 1,
                   !.jsonFile = JsonData(json_dump(c.invoice))]
    ELSE c

\* main, from the parsed args to the return or the exception.
main(a, cf, cl, jf) ==
    LET Finish(c) == IF c.exit = "run" THEN [c EXCEPT !.exit = "generated"]
                     ELSE c
    IN  CHOOSE r \in
          {Finish(SaveJson(a, c6)) : c6 \in
            {Render(a, c5) : c5 \in
              {Numbering(a, c4) : c4 \in
                {LoadSource(a, c3) : c3 \in
                  {SaveClientCmd(a, c2) : c2 \in
                    {DeleteClientCmd(a, c1) : c1 \in
                      {ListClientsCmd(a, Start(cf, cl, jf))}}}}}}} : TRUE

\* ---------------------------------------------------------------- actions
NoCall == [op |-> "none"]

\* A direct call of get_next_invoice_number().
Allocate ==
    LET r == get_next_invoice_number(counterFile)
    IN  /\ r.file.st = "ok" => r.file.last_number <= MaxCounter
        /\ counterFile' = r.file
        /\ call' = [op |-> "get_next_invoice_number", before |-> counterFile,
                    ret |-> r.ret, exc |-> r.exc, peeks |-> peekLog]
        /\ allocLog' = IF r.exc = None THEN Append(allocLog, r.ret)
                       ELSE allocLog
        /\ peekLog' = IF r.exc = None THEN <<>> ELSE peekLog
        /\ UNCHANGED <<clientsFile, jsonFile, counter0, exported>>

\* A direct call of peek_next_invoice_number().
Peek ==
    LET r == peek_next_invoice_number(counterFile)
    IN  /\ Len(peekLog) < MaxPeeks
        /\ counterFile' = r.file
        /\ call' = [op |-> "peek_next_invoice_number", before |-> counterFile,
                    ret |-> r.ret, exc |-> r.exc, peeks |-> peekLog]
        /\ peekLog' = IF r.exc = None THEN Append(peekLog, r.ret)
                      ELSE peekLog
        /\ UNCHANGED <<clientsFile, jsonFile, allocLog, counter0, exported>>

\* One invocation of the script with the parsed arguments a.
Invoke(a) ==
    \E o \in {main(a, counterFile, clientsFile, jsonFile)} :
        /\ o.counterFile.st = "ok" => o.counterFile.last_number <= MaxInvoices
        /\ counterFile' = o.counterFile
        /\ clientsFile' = o.clientsFile
        /\ jsonFile' = o.jsonFile
        /\ call' = [op |-> "main", args |-> a, out |-> o,
                    before |-> [counterFile |-> counterFile,
                                clientsFile |-> clientsFile,
                                jsonFile |-> jsonFile,
                                exported |-> exported]]
        /\ allocLog' = IF o.alloc # None THEN Append(allocLog, o.alloc)
                       ELSE allocLog
        /\ peekLog' = IF o.counterFile # counterFile THEN <<>> ELSE peekLog
        /\ exported' = IF o.n_save_json > 0 THEN o.invoice ELSE exported
        /\ UNCHANGED counter0

\* --------------------------------------------- the counter functions alone
InitCounter ==
    /\ counterFile \in {AbsentFile, CorruptFile}
                       \cup {CounterData(n) : n \in 1..MaxCounter}
    /\ counter0 = counterFile
    /\ clientsFile = AbsentFile
    /\ jsonFile = AbsentFile
    /\ call = NoCall
    /\ allocLog = <<>>
    /\ peekLog = <<>>
    /\ exported = NoInvoice

NextCounter == Allocate \/ Peek

SpecCounter == InitCounter /\ [][NextCounter]_vars

\* ------------------------------------------------------ the command line
\* The vocabulary of the invocations: --item strings and what is typed.
Item1 == <<"Consulting", "Jan 1-15", "10", "150">>
Item2 == <<"Design", "", "3", "99.5">>
Item3 == <<"Audit">>
ItemBad == <<"Review", "", "ten", "150">>

JsonPath == "invoice-data.json"

TypedNew == [NoTyped EXCEPT !.title = "Workshop", !.to_name = "Acme Corp",
                            !.items = <<[service |-> "Facilitation",
                                         date |-> "Jan 2025",
                                         quantity |-> "2",
                                         rate |-> "$1,500"]>>]

TypedPick == [NoTyped EXCEPT !.choice = "1", !.date = "January 5, 2026",
                             !.items = <<[service |-> "Coaching",
                                          date |-> "",
                                          quantity |-> "two",
                                          rate |-> "150"]>>,
                             !.notes = "Thank you"]

\* --no-number and --invoice-number as given together.
NumberFlags ==
    {<<FALSE, None>>, <<TRUE, None>>, <<FALSE, "X-9">>, <<TRUE, "X-9">>,
     <<FALSE, "">>}

WithNumberFlags(a, nf) ==
    [a EXCEPT !.no_number = nf[1], !.invoice_number = nf[2]]

ArgsList ==
    {[NoArgs EXCEPT !.list_clients = TRUE, !.item = it, !.delete_client = d] :
        it \in {<<>>, <<Item1>>}, d \in {None, "nsm"}}

ArgsDelete ==
    {[NoArgs EXCEPT !.delete_client = k, !.item = it] :
        k \in {"nsm", "acme"}, it \in {<<>>, <<Item1>>}}

ArgsSave ==
    {[NoArgs EXCEPT !.save_client = "nsm", !.to = t, !.to_company = co,
                    !.item = it, !.client = c] :
        t \in {None, "Nervous System Mastery"},
        co \in {None, "Curious Humans LLC"},
        it \in {<<>>, <<Item1>>, <<ItemBad>>},
        c \in {None, "acme"}}

ArgsCli ==
    {WithNumberFlags([NoArgs EXCEPT !.title = t, !.item = it, !.client = c,
                                    !.save_json = sj], nf) :
        t \in {None, "Invoice for Consulting"},
        it \in {<<>>, <<Item2>>, <<ItemBad>>},
        c \in {None, "nsm"},
        sj \in {None, JsonPath},
        nf \in NumberFlags}

ArgsJson ==
    {WithNumberFlags([NoArgs EXCEPT !.from_json = JsonPath, !.save_json = sj],
                     nf) :
        sj \in {None, JsonPath}, nf \in NumberFlags}

ArgsInteractive ==
    {WithNumberFlags([NoArgs EXCEPT !.typed = ty], nf) :
        ty \in {TypedNew, TypedPick}, nf \in NumberFlags}

\* ------------------------------------------------- the script, every mode
Init ==
    /\ counterFile \in {AbsentFile, CorruptFile}
    /\ counter0 = counterFile
    /\ clientsFile = AbsentFile
    /\ jsonFile = AbsentFile
    /\ call = NoCall
    /\ allocLog = <<>>
    /\ peekLog = <<>>
    /\ exported = NoInvoice

ListClients ==
    \E a \in ArgsList :
        /\ a.list_clients
        /\ Invoke(a)

DeleteClient ==
    \E a \in ArgsDelete :
        /\ a.delete_client # None
        /\ Invoke(a)

SaveClient ==
    \E a \in ArgsSave :
        /\ Truthy(a.client) => a.item = <<Item1>>
        /\ a.to_company # None
        /\ Invoke(a)

CliMode ==
    \E a \in ArgsCli :
        /\ Truthy(a.title) \/ a.item # <<>> \/ Truthy(a.client)
        /\ Truthy(a.save_json) => (~Truthy(a.client) /\ a.item # <<ItemBad>>)
        /\ Invoke(a)

FromJson ==
    \E a \in ArgsJson :
        /\ a.save_json = None
        /\ Invoke(a)

InteractiveMode ==
    \E a \in ArgsInteractive :
        /\ a.typed # NoTyped
        /\ Invoke(a)

Next ==
    \/ ListClients
    \/ DeleteClient
    \/ SaveClient
    \/ CliMode
    \/ FromJson
    \/ InteractiveMode

Spec == Init /\ [][Next]_vars

\* ------------------------------------------------- client management only
ArgsClientSave ==
    {[NoArgs EXCEPT !.save_client = k, !.to = t, !.to_company = co] :
        k \in {"nsm", "acme"},
        t \in {None, "Nervous System Mastery", "Acme Corp"},
        co \in {None, "", "Curious Humans LLC"}}

ArgsClientDelete ==
    {[NoArgs EXCEPT !.delete_client = k] : k \in {"nsm", "acme", "ghost"}}

ClientSave ==
    \E a \in ArgsClientSave :
        /\ a.save_client # None
        /\ Invoke(a)

ClientDelete ==
    \E a \in ArgsClientDelete :
        /\ a.delete_client # None
        /\ Invoke(a)

ClientList ==
    /\ NoArgs.item = <<>>
    /\ Invoke([NoArgs EXCEPT !.list_clients = TRUE])

NextClients == ClientSave \/ ClientDelete \/ ClientList

SpecClients == Init /\ [][NextClients]_vars

\* ----------------------------------------------- CLI mode, every override
\* Each flag is absent, given empty, or given a value.
Given(v) == {None, "", v}

ArgsMerge ==
    {[NoArgs EXCEPT !.title = t, !.date = d, !.to = to, !.to_company = co,
                    !.from_name = fn, !.from_email = fe, !.payment = pm,
                    !.notes = nt, !.item = it, !.client = c] :
        t \in Given("Invoice for Consulting"),
        d \in Given("January 5, 2026"),
        to \in Given("Acme Corp"),
        co \in Given("Acme Holdings"),
        fn \in Given("A. Luck"),
        fe \in Given("billing@example.com"),
        pm \in Given("Wire transfer"),
        nt \in Given("Net 30"),
        it \in {<<>>, <<Item1, Item3>>},
        c \in {None, "nsm"}}

\* Profiles are saved first, then one invocation in CLI mode is made.
NoInvoiceYet == IF call.op = "none" THEN TRUE ELSE call.out.source = None

MergeSave ==
    /\ NoInvoiceYet
    /\ \E co \in {None, "Curious Humans LLC"} :
        Invoke([NoArgs EXCEPT !.save_client = "nsm",
                                 !.to = "Nervous System Mastery",
                                 !.to_company = co])

MergeCli ==
    /\ NoInvoiceYet
    /\ \E a \in ArgsMerge :
        /\ Truthy(a.title) \/ a.item # <<>> \/ Truthy(a.client)
        /\ Invoke(a)

NextMerge == MergeSave \/ MergeCli

SpecMerge == Init /\ [][NextMerge]_vars

\* ------------------------------------------------------ export and import
ArgsExport ==
    {WithNumberFlags([NoArgs EXCEPT !.title = "Invoice for Consulting",
                                    !.to = to, !.notes = nt, !.item = it,
                                    !.save_json = JsonPath], nf) :
        to \in {None, "Acme Corp"},
        nt \in {None, "Net 30"},
        it \in {<<>>, <<Item1>>, <<Item1, Item2>>},
        nf \in {<<FALSE, None>>, <<TRUE, None>>, <<FALSE, "X-9">>}}

ArgsImport == [NoArgs EXCEPT !.from_json = JsonPath]

ExportCli ==
    \E a \in ArgsExport :
        /\ Truthy(a.save_json)
        /\ Invoke(a)

ExportInteractive ==
    \E nf \in {<<FALSE, None>>, <<TRUE, None>>} :
        /\ nf[2] = None
        /\ Invoke(WithNumberFlags([NoArgs EXCEPT !.typed = TypedNew,
                                              !.save_json = JsonPath], nf))

Import ==
    /\ Truthy(ArgsImport.from_json)
    /\ Invoke(ArgsImport)

ImportExport ==
    /\ Truthy(ArgsImport.from_json)
    /\ Invoke([ArgsImport EXCEPT !.save_json = JsonPath])

NextRoundTrip == ExportCli \/ ExportInteractive \/ Import \/ ImportExport

SpecRoundTrip == Init /\ [][NextRoundTrip]_vars

\* The identifiers as the documentation writes them ("INV-001, INV-002,
\* etc."), spelled out.
ExpectedId ==
    <<"INV-001", "INV-002", "INV-003", "INV-004", "INV-005", "INV-006",
      "INV-007", "INV-008", "INV-009", "INV-010", "INV-011", "INV-012">>

\* C1: starting from an absent counter store, the k-th call of
\* get_next_invoice_number returns the identifier of k (INV-001, INV-002,
\* ... in order, so each is the successor of the one before), no identifier
\* is returned twice, and after the k-th call the store holds last_number k.
C1_AllocateSequence ==
    counter0 = AbsentFile =>
        /\ \A k \in 1..Len(allocLog) : allocLog[k] = ExpectedId[k]
        /\ \A i, j \in 1..Len(allocLog) : i # j => allocLog[i] # allocLog[j]
        /\ allocLog # <<>> => counterFile = CounterData(Len(allocLog))
        /\ allocLog = <<>> => counterFile = AbsentFile

C1_Witness ==
    /\ counter0 = AbsentFile
    /\ Len(allocLog) >= 10
    /\ call.op = "get_next_invoice_number"

\* C2: a call of peek_next_invoice_number leaves the counter store as it
\* was (an absent store stays absent), all the peeks made since the store
\* last changed returned the same identifier, and the next successful
\* get_next_invoice_number returns that identifier.
C2_PeekIsPure ==
    /\ call.op = "peek_next_invoice_number" => counterFile = call.before
    /\ \A i, j \in 1..Len(peekLog) : peekLog[i] = peekLog[j]
    /\ (call.op = "get_next_invoice_number" /\ call.exc = None) =>
           \A i \in 1..Len(call.peeks) : call.peeks[i] = call.ret

C2_Witness ==
    /\ call.op = "get_next_invoice_number"
    /\ call.exc = None
    /\ call.before = AbsentFile
    /\ Len(call.peeks) >= 2

\* C4: with a corrupt (unparseable) counter store, get_next_invoice_number
\* and peek_next_invoice_number raise, return no identifier and leave the
\* store as it is; the store is never reset and no identifier is ever
\* handed out.
C4_CorruptStoreFails ==
    /\ (call.op \in {"get_next_invoice_number", "peek_next_invoice_number"}
          /\ call.before = CorruptFile) =>
           /\ call.exc = "JSONDecodeError"
           /\ call.ret = None
           /\ counterFile = CorruptFile
    /\ counter0 = CorruptFile => (counterFile = CorruptFile /\ allocLog = <<>>)

C4_Witness ==
    /\ call.op = "get_next_invoice_number"
    /\ call.before = CorruptFile
    /\ call.exc # None

\* ------------------------------------------- what the last invocation did
IsMain == call.op = "main"

\* last_number as the counter functions read it: 0 for an absent store.
LastNumber(f) == IF f.st = "ok" THEN f.last_number ELSE 0

\* The invocation got as far as "if args.delete_client:" and took it, or as
\* far as "if args.save_client:" and took it.
DeleteReached == ~call.args.list_clients /\ Truthy(call.args.delete_client)

SaveReached ==
    /\ ~call.args.list_clients
    /\ ~Truthy(call.args.delete_client)
    /\ Truthy(call.args.save_client)

\* C3, as the claim states it: an explicit number is carried verbatim with
\* no allocation, --no-number leaves the number absent with no allocation,
\* and every other invocation allocates exactly once and carries the result.
\* Stated here of the invocations that give at most one of the two flags.
C3_ThreeModes ==
    (IsMain /\ call.out.exit = "generated"
            /\ ~(call.args.no_number /\ Truthy(call.args.invoice_number))) =>
        /\ Truthy(call.args.invoice_number) =>
              /\ call.out.invoice.invoice_number = call.args.invoice_number
              /\ call.out.n_alloc = 0
        /\ call.args.no_number =>
              /\ call.out.invoice.invoice_number = None
              /\ call.out.n_alloc = 0
        /\ (~Truthy(call.args.invoice_number) /\ ~call.args.no_number) =>
              /\ call.out.n_alloc = 1
              /\ call.out.invoice.invoice_number = call.out.alloc

\* C3, amended: the modes are tried in the order --no-number, explicit
\* number, number already carried by the loaded record, allocation.  With
\* --no-number the number is absent and nothing is allocated, whatever else
\* is given; otherwise a non-empty --invoice-number is carried verbatim with
\* no allocation; otherwise a record that already carries a number (a JSON
\* import) keeps it with no allocation; otherwise get_next_invoice_number
\* is called exactly once and the record carries the identifier it returned.
C3_NumberPolicy ==
    IsMain =>
        /\ call.out.n_alloc <= 1
        /\ call.out.exit = "generated" =>
            IF call.args.no_number
            THEN /\ call.out.invoice.invoice_number = None
                 /\ call.out.n_alloc = 0
            ELSE IF Truthy(call.args.invoice_number)
            THEN /\ call.out.invoice.invoice_number = call.args.invoice_number
                 /\ call.out.n_alloc = 0
            ELSE IF call.out.source = "json"
                    /\ Truthy(call.before.exported.invoice_number)
            THEN /\ call.out.invoice.invoice_number
                        = call.before.exported.invoice_number
                 /\ call.out.n_alloc = 0
            ELSE /\ call.out.n_alloc = 1
                 /\ call.out.invoice.invoice_number = call.out.alloc
                 /\ call.out.alloc
                        = ExpectedId[LastNumber(call.before.counterFile) + 1]
                 /\ counterFile
                        = CounterData(LastNumber(call.before.counterFile) + 1)

C3_Witness ==
    /\ IsMain
    /\ call.out.exit = "generated"
    /\ call.out.source = "json"
    /\ ~call.args.no_number
    /\ ~Truthy(call.args.invoice_number)
    /\ call.out.numbering = "kept"
    /\ call.before.counterFile = CounterData(1)

\* C6, as the claim states it: an invocation whose resolved record has an
\* empty title or no line item aborts with a ValidationError, the renderer
\* is not invoked and no document is written.
C6_ValidatesBeforeRender ==
    (IsMain /\ call.out.numbering # None
            /\ call.out.exit \notin {"JSONDecodeError"}
            /\ (call.out.invoice.title = "" \/ call.out.invoice.items = <<>>))
        => /\ call.out.exit = "ValidationError"
           /\ call.out.n_render = 0
           /\ call.out.doc = NoDoc

\* C7, as the claim states it: no client-management command renders
\* without line items; --save-client always saves, and generation follows
\* if and only if line items were supplied.
C7_ClientCommands ==
    IsMain =>
        /\ ((call.args.list_clients \/ Truthy(call.args.delete_client)
               \/ Truthy(call.args.save_client)) /\ call.args.item = <<>>)
              => call.out.n_render = 0
        /\ SaveReached =>
              /\ call.out.n_save_clients = 1
              /\ call.out.n_render = 1 <=> call.args.item # <<>>

\* C7, amended: --list-clients and --delete-client exit after their action
\* and never render; no client-management command renders without line
\* items; --save-client without a non-empty --to saves nothing and exits;
\* --save-client with --to always saves the profile, and the invocation
\* goes on to build an invoice if and only if line items were supplied (a
\* document is rendered only then).
C7_ClientCommandsAmended ==
    IsMain =>
        /\ (call.args.list_clients \/ DeleteReached) =>
              /\ call.out.exit = "return"
              /\ call.out.source = None
              /\ call.out.n_render = 0
        /\ ((call.args.list_clients \/ Truthy(call.args.delete_client)
               \/ Truthy(call.args.save_client)) /\ call.args.item = <<>>)
              => call.out.n_render = 0
        /\ (SaveReached /\ ~Truthy(call.args.to)) =>
              /\ call.out.n_save_clients = 0
              /\ clientsFile = call.before.clientsFile
              /\ call.out.exit = "return"
              /\ call.out.n_render = 0
        /\ (SaveReached /\ Truthy(call.args.to)) =>
              /\ call.out.n_save_clients = 1
              /\ clientsFile.st = "ok"
              /\ HasKey(clientsFile.data, call.args.save_client)
              /\ Lookup(clientsFile.data, call.args.save_client).name
                    = call.args.to
              /\ call.out.source # None <=> call.args.item # <<>>
              /\ call.out.n_render = 1 => call.args.item # <<>>

C7_Witness ==
    /\ IsMain
    /\ SaveReached
    /\ Truthy(call.args.to)
    /\ call.args.item # <<>>
    /\ call.out.n_render = 1
    /\ call.out.exit = "generated"

\* C10: an invocation changes last_number (0 for an absent store) by 0 or
\* by exactly +1, so it never decreases, and leaves the counter store as it
\* is when it lists or deletes clients, saves a client without items or
\* without a recipient name, selects an unknown client key, is given a
\* (non-empty) explicit invoice number or is given --no-number.
C10_CounterMonotone ==
    IsMain =>
        /\ LastNumber(counterFile) - LastNumber(call.before.counterFile)
              \in {0, 1}
        /\ call.before.counterFile = CorruptFile => counterFile = CorruptFile
        /\ ( \/ call.args.list_clients
             \/ DeleteReached
             \/ (SaveReached /\ call.args.item = <<>>)
             \/ (SaveReached /\ ~Truthy(call.args.to))
             \/ call.out.msg = "Error: Unknown client"
             \/ Truthy(call.args.invoice_number)
             \/ call.args.no_number )
              => /\ counterFile = call.before.counterFile
                 /\ call.out.n_alloc = 0

C10_Witness ==
    /\ IsMain
    /\ call.before.counterFile = CounterData(1)
    /\ counterFile = CounterData(2)
    /\ Len(allocLog) = 2

\* C5: deleting a key that is not in the client store reports "not found"
\* and leaves the store as it is (nothing is saved, an absent file is not
\* created); deleting a key that is in the store removes that key alone,
\* every other key keeping its profile.
C5_DeleteClient ==
    (IsMain /\ DeleteReached) =>
        LET k == call.args.delete_client
            was == load_clients(call.before.clientsFile)
        IN  IF ~HasKey(was, k)
            THEN /\ call.out.msg = "Client not found"
                 /\ call.out.exit = "return"
                 /\ call.out.n_save_clients = 0
                 /\ clientsFile = call.before.clientsFile
            ELSE /\ call.out.msg = "Deleted client"
                 /\ clientsFile.st = "ok"
                 /\ ~HasKey(clientsFile.data, k)
                 /\ Len(clientsFile.data) = Len(was) - 1
                 /\ \A i \in 1..Len(was) :
                       was[i].key # k =>
                           /\ HasKey(clientsFile.data, was[i].key)
                           /\ Lookup(clientsFile.data, was[i].key) = was[i]

C5_Witness ==
    /\ IsMain
    /\ DeleteReached
    /\ call.out.msg = "Client not found"
    /\ call.before.clientsFile.st = "ok"
    /\ Len(call.before.clientsFile.data) = 1

\* C8, as the claim states it: in CLI mode every field of the record is
\* the override whenever the flag is given, otherwise (recipient name and
\* company only) the value of the selected profile, otherwise the default.
Supplied(override, fallback) ==
    IF override # None THEN override ELSE fallback

C8_OverrideWins ==
    (IsMain /\ call.out.source = "cli" /\ call.out.numbering # None) =>
        LET a == call.args
            inv == call.out.invoice
            profile == IF Truthy(a.client)
                       THEN Lookup(load_clients(clientsFile), a.client)
                       ELSE [key |-> None, name |-> "", company |-> ""]
        IN  /\ inv.title = Supplied(a.title, "")
            /\ inv.date = Supplied(a.date, Today)
            /\ inv.to.name = Supplied(a.to, profile.name)
            /\ inv.to.company = Supplied(a.to_company, profile.company)
            /\ inv.from.name = Supplied(a.from_name, "Adam Luck")
            /\ inv.from.email
                  = Supplied(a.from_email, "adamluckydo@gmail.com")
            /\ inv.payment_method
                  = Supplied(a.payment, "PayPal - adamluckydo@gmail.com")
            /\ inv.notes = Supplied(a.notes, "")

\* C8, amended: in CLI mode every field of the record is the override when
\* a non-empty one is given (a flag given the empty string counts as not
\* given), otherwise, for the recipient name and company only, the value of
\* the selected profile, otherwise the built-in default; the profile
\* touches no other field.
Pick(override, fallback) == IF Truthy(override) THEN override ELSE fallback

ExpectedItems ==
    <<[service |-> "Consulting", date |-> "Jan 1-15", quantity |-> 10,
       rate |-> 15000],
      [service |-> "Audit", date |-> "", quantity |-> 1, rate |-> 0]>>

C8_LayeredMerge ==
    (IsMain /\ call.out.source = "cli" /\ call.out.numbering # None) =>
        LET a == call.args
            inv == call.out.invoice
            profile == IF Truthy(a.client)
                       THEN Lookup(load_clients(clientsFile), a.client)
                       ELSE [key |-> None, name |-> "", company |-> ""]
        IN  /\ inv.title = Pick(a.title, "")
            /\ inv.date = Pick(a.date, Today)
            /\ inv.to.name = Pick(a.to, profile.name)
            /\ inv.to.company = Pick(a.to_company, profile.company)
            /\ inv.from.name = Pick(a.from_name, "Adam Luck")
            /\ inv.from.email = Pick(a.from_email, "adamluckydo@gmail.com")
            /\ inv.items = IF a.item # <<>> THEN ExpectedItems ELSE <<>>
            /\ inv.payment_method
                  = Pick(a.payment, "PayPal - adamluckydo@gmail.com")
            /\ inv.notes = Pick(a.notes, "")

C8_Witness ==
    /\ IsMain
    /\ call.out.source = "cli"
    /\ call.out.exit = "generated"
    /\ Truthy(call.args.client)
    /\ call.args.to = "Acme Corp"
    /\ call.args.to_company = None
    /\ call.out.invoice.to = [name |-> "Acme Corp",
                              company |-> "Curious Humans LLC"]
    /\ call.args.item # <<>>

\* C9: an import (--from-json and nothing else) of the file a previous
\* invocation exported with --save-json builds the exported record again:
\* identical when the exported record carries an invoice number, and then
\* the counter store is not touched; identical but for the number, which is
\* allocated, when it carries none.
C9_RoundTrip ==
    (IsMain /\ call.args = ArgsImport /\ call.before.jsonFile.st = "ok") =>
        LET r == call.before.exported
            n == LastNumber(call.before.counterFile)
        IN  IF Truthy(r.invoice_number)
            THEN /\ call.out.exit = "generated"
                 /\ call.out.invoice = r
                 /\ call.out.n_alloc = 0
                 /\ counterFile = call.before.counterFile
            ELSE call.before.counterFile # CorruptFile =>
                 /\ call.out.exit = "generated"
                 /\ call.out.n_alloc = 1
                 /\ call.out.invoice
                       = [r EXCEPT !.invoice_number = ExpectedId[n + 1]]
                 /\ counterFile = CounterData(n + 1)

C9_Witness ==
    /\ IsMain
    /\ call.args = ArgsImport
    /\ call.before.jsonFile.st = "ok"
    /\ call.before.exported.invoice_number = "INV-001"
    /\ Len(call.before.exported.items) = 2
    /\ call.before.exported.notes = "Net 30"
    /\ call.out.exit = "generated"
    /\ call.out.invoice.invoice_number = "INV-001"
    /\ counterFile = CounterData(1)

====
